---- MODULE Spec2Model ----
(***************************************************************************)
(* Model of IssueService (src/src/issue/issue.service.ts).                 *)
(*                                                                         *)
(* The service runs on a single-threaded event loop: the code between two  *)
(* `await`s is atomic, and requests interleave only at their awaits.       *)
(* Every action below is one awaited I/O call (a repository call or a      *)
(* broker publish) together with the synchronous code that runs when it    *)
(* settles, up to the next awaited call.  The first action of an           *)
(* operation also accepts the request (it draws the arguments).            *)
(*                                                                         *)
(* The store (two tables) and the broker are external; the store is        *)
(* modelled as atomic per call, the broker as an append-only log.  A       *)
(* publish may be rejected, and the save of a new issue may be rejected.   *)
(***************************************************************************)
EXTENDS Integers, Sequences, FiniteSets, TLC

\* ------------------------------------------------------------------ bounds
NumProcs    == 2      \* requests that may be in flight at once
MaxRequests == 2      \* requests accepted in one behaviour
MaxIssues   == 2      \* ids the store can generate

Procs    == 1..NumProcs
IssueIds == 1..MaxIssues
NoId     == 0         \* the id of an entity that was not saved yet

NewTitles    == {"t1"}
Descriptions == {"d1"}
Projects     == {"P1", "P2"}
Bodies       == {"c1"}

\* ------------------------------------------------------- data and helpers
\* { ...a, ...b }: the keys of both, b's value where both have the key
Spread(a, b) ==
  [k \in (DOMAIN a) \cup (DOMAIN b) |-> IF k \in DOMAIN b THEN b[k] ELSE a[k]]

Empty == [k \in {} |-> ""]

\* CreateIssueDto: the fields of a new issue
CreateDtos ==
  {[title |-> t, description |-> d, projectId |-> pr] :
      t \in NewTitles, d \in Descriptions, pr \in Projects}

\* UpdateIssueDto: any subset of the keys title, description, status
UpdateKeys == {"title", "description", "status"}
NewValues(k) ==
  IF k = "title" THEN {"t2"} ELSE IF k = "description" THEN {""} ELSE {"closed"}
UpdateDtos ==
  {d \in UNION {[ks -> UNION {NewValues(k) : k \in ks}] : ks \in SUBSET UpdateKeys} :
     \A k \in DOMAIN d : d[k] \in NewValues(k)}

\* CreateCommentDto
CommentDtos == {[body |-> b] : b \in Bodies}

\* the status column's value for a row saved without one
DefaultStatus == "open"

NoIssue == [id |-> NoId, title |-> "", description |-> "", status |-> "", projectId |-> ""]
NoComment == [id |-> NoId, body |-> "", issueId |-> NoId]
NoLoc   == [id |-> NoId, dto |-> Empty, issue |-> NoIssue,
            payload |-> Empty, comment |-> NoComment]
NoResult == [op |-> "none", id |-> NoId, project |-> "", dto |-> Empty,
             kind |-> "none", issue |-> NoIssue, list |-> {}, comment |-> NoComment]

VARIABLES
  issues,        \* the Issue table: id -> row
  comments,      \* the Comment table: a set of rows
  nextId,        \* the next generated issue id
  nextCommentId, \* the next generated comment id
  events,        \* what the broker accepted, in order
  pc,            \* per request slot: the awaited call it is suspended on
  loc,           \* per request slot: the locals of the running operation
  last,          \* the outcome of the call that settled last
  requests       \* requests accepted so far

vars == <<issues, comments, nextId, nextCommentId, events, pc, loc, last, requests>>

\* the Issue table the service is constructed over: the database outlives
\* the service, so the table is empty or holds what an earlier run saved
StoredAtStart ==
  { [i \in {} |-> NoIssue],
    [i \in {1} |-> [id |-> 1, title |-> "t1", description |-> "d1",
                    status |-> DefaultStatus, projectId |-> "P1"]] }

Init ==
  /\ issues \in StoredAtStart
  /\ comments = {}
  /\ nextId = Cardinality(DOMAIN issues) + 1
  /\ nextCommentId = 1
  /\ events = <<>>
  /\ pc = [p \in Procs |-> "idle"]
  /\ loc = [p \in Procs |-> NoLoc]
  /\ last = NoResult
  /\ requests = 0

\* ------------------------------------------------------------ collaborators
\* the ids requests address: the ids generated so far and one that was never
\* generated (all ids never generated behave alike)
KnownIds == {i \in IssueIds : i <= nextId}

\* Repository<Issue>.findOne(id): the row, or undefined
RepoFindOne(id) == IF id \in DOMAIN issues THEN issues[id] ELSE NoIssue

\* an update that inserts the row when there is none (what save would do)
RepoUpsert(id, dto) ==
  [i \in (DOMAIN issues) \cup {id} |->
     IF i = id
       THEN Spread(IF id \in DOMAIN issues THEN issues[id] ELSE [NoIssue EXCEPT !.id = id], dto)
       ELSE issues[i]]

\* Repository<Issue>.update(id, partial): sets the given columns of the row
RepoUpdate(id, dto) ==
  IF id \in DOMAIN issues THEN [issues EXCEPT ![id] = Spread(@, dto)] ELSE issues

\* Repository<Issue>.delete(id): DeleteResult.affected
RepoAffected(id) == IF id \in DOMAIN issues THEN 1 ELSE 0

\* a delete that leaves the table as it is
RepoDeleteNone(id) == issues

\* Repository<Issue>.delete(id): the table afterwards
RepoDelete(id) == [i \in (DOMAIN issues) \ {id} |-> issues[i]]

\* Repository<Issue>.find(): all rows
RepoFind == {issues[i] : i \in DOMAIN issues}

\* AmqpConnection.publish(exchange, routingKey, message), accepted by the broker
Publish(exchange, key, payload) ==
  events' = Append(events, [exchange |-> exchange, key |-> key,
                            payload |-> payload])

\* ------------------------------------------------------------ JS semantics
\* a pending Promise object wrapping the value it will resolve to
Promise(v) == [promise |-> TRUE, value |-> v]

\* the truthiness `if (x)` tests: a Promise is an object, hence truthy;
\* undefined is falsy; an entity is truthy
Truthy(x) == IF "promise" \in DOMAIN x THEN TRUE ELSE x # NoIssue

\* what the caller of an async function gets when it returns x
Resolved(x) == IF "promise" \in DOMAIN x THEN x.value ELSE x

\* --------------------------------------------------------- request plumbing
\* a request is accepted into the first idle slot (the slots are alike)
Accept(p) ==
  /\ pc[p] = "idle"
  /\ \A q \in Procs : q < p => pc[q] # "idle"
  /\ requests < MaxRequests
  /\ requests' = requests + 1

\* the operation suspends on its next awaited call
Suspend(p, at, locals) ==
  /\ pc' = [pc EXCEPT ![p] = at]
  /\ loc' = [loc EXCEPT ![p] = locals]
  /\ last' = last

\* the operation settles: resolves (kind "ok") or rejects (any other kind)
Settle(p, result) ==
  /\ pc' = [pc EXCEPT ![p] = "idle"]
  /\ loc' = [loc EXCEPT ![p] = NoLoc]
  /\ last' = result

\* HttpException('Issue not found' / 'Post not found', NOT_FOUND)
NotFound(r) == [r EXCEPT !.kind = "NotFound"]

\* HttpException('Could not save issue', INTERNAL_SERVER_ERROR)
InternalError(r) == [r EXCEPT !.kind = "InternalError"]

\* the rejection of publish, as the broker client raised it
PublishError(r) == [r EXCEPT !.kind = "PublishError"]

Ok(r) == [r EXCEPT !.kind = "ok"]

\* ------------------------------------------------------------------ create
\* the catch block of create: whatever was thrown inside the try
CreateCatch(r, thrown) == InternalError(r)

CreateResult(p) ==
  [NoResult EXCEPT !.op = "create", !.dto = loc[p].dto,
                   !.id = loc[p].id]

\* the message of 'news.issue.create' without the generated id
CreatePayloadNoId(dto, newIssue) == dto

\* the message of 'news.issue.create'
CreatePayload(dto, newIssue) == Spread(dto, [issueId |-> newIssue.id])

\* issueRepository.create(dto) and the awaited save(newIssue)
CreateSave(p) ==
  /\ Accept(p)
  /\ \E dto \in CreateDtos :
       \/ /\ nextId <= MaxIssues
          /\ LET newIssue == [id |-> nextId, title |-> dto.title,
                              description |-> dto.description,
                              status |-> DefaultStatus,
                              projectId |-> dto.projectId]
             IN /\ issues' = [i \in (DOMAIN issues) \cup {nextId} |->
                                IF i = nextId THEN newIssue ELSE issues[i]]
                /\ nextId' = nextId + 1
                /\ Suspend(p, "create_created",
                           [NoLoc EXCEPT !.id = nextId,
                                         !.dto = dto, !.issue = newIssue])
          /\ UNCHANGED <<comments, nextCommentId, events>>
       \/ /\ Settle(p, CreateCatch([NoResult EXCEPT !.op = "create",
                                      !.dto = dto], "save"))
          /\ UNCHANGED <<issues, comments, nextId, nextCommentId, events>>

\* publish 'project.issue.created', deleting the saved row when it fails
CreatePublishCreatedRollback(p) ==
  /\ pc[p] = "create_created"
  /\ \/ /\ Publish("direct-exchange", "project.issue.created",
                   [uuid |-> loc[p].issue.id])
        /\ Suspend(p, "create_news", loc[p])
        /\ UNCHANGED issues
     \/ /\ Settle(p, CreateCatch(CreateResult(p), "publish"))
        /\ issues' = RepoDelete(loc[p].id)
        /\ UNCHANGED events
  /\ UNCHANGED <<comments, nextId, nextCommentId, requests>>

\* publish 'project.issue.created'
CreatePublishCreated(p) ==
  /\ pc[p] = "create_created"
  /\ \/ /\ Publish("direct-exchange", "project.issue.created",
                   [uuid |-> loc[p].issue.id])
        /\ Suspend(p, "create_news", loc[p])
     \/ /\ Settle(p, CreateCatch(CreateResult(p), "publish"))
        /\ UNCHANGED events
  /\ UNCHANGED <<issues, comments, nextId, nextCommentId, requests>>

\* publish 'news.issue.create', then return newIssue
CreatePublishNews(p) ==
  /\ pc[p] = "create_news"
  /\ \/ /\ Publish("news", "news.issue.create",
                   CreatePayload(loc[p].dto, loc[p].issue))
        /\ Settle(p, Ok([CreateResult(p) EXCEPT !.issue = loc[p].issue]))
     \/ /\ Settle(p, CreateCatch(CreateResult(p), "publish"))
        /\ UNCHANGED events
  /\ UNCHANGED <<issues, comments, nextId, nextCommentId, requests>>

\* ------------------------------------------------------------------- reads
FindAll(p) ==
  /\ Accept(p)
  /\ Settle(p, Ok([NoResult EXCEPT !.op = "findAll", 
                                   !.list = RepoFind]))
  /\ UNCHANGED <<issues, comments, nextId, nextCommentId, events>>

\* where issue.projectId = :projectId
ForProject(rows, projectId) == {r \in rows : r.projectId = projectId}

FindAllForProject(p) ==
  /\ Accept(p)
  /\ \E pr \in Projects :
       Settle(p, Ok([NoResult EXCEPT !.op = "findAllForProject",
                                     !.project = pr,
                                     !.list = ForProject(RepoFind, pr)]))
  /\ UNCHANGED <<issues, comments, nextId, nextCommentId, events>>

\* findOne without its check of the fetched row
FindOneOutcomeUnchecked(r, issue) == Ok([r EXCEPT !.issue = issue])

\* findOne's outcome for what the repository returned
FindOneOutcome(r, issue) ==
  IF Truthy(issue) THEN Ok([r EXCEPT !.issue = issue]) ELSE NotFound(r)

FindOne(p) ==
  /\ Accept(p)
  /\ \E id \in KnownIds :
       Settle(p, FindOneOutcome([NoResult EXCEPT !.op = "findOne",
                                    !.id = id],
                                RepoFindOne(id)))
  /\ UNCHANGED <<issues, comments, nextId, nextCommentId, events>>

\* the comments of one issue (relations: ['comments'])
CommentsOf(id) == {c \in comments : c.issueId = id}

\* findAllCommentsForIssue: `issue` is the un-awaited Promise of findOne
FindAllCommentsForIssue(p) ==
  /\ Accept(p)
  /\ \E id \in KnownIds :
       LET issue == Promise(RepoFindOne(id))
           r == [NoResult EXCEPT !.op = "findAllCommentsForIssue",
                                 !.id = id]
       IN IF Truthy(issue)
            THEN Settle(p, Ok([r EXCEPT !.issue = Resolved(issue),
                                        !.list = IF id \in DOMAIN issues
                                                   THEN CommentsOf(id) ELSE {}]))
            ELSE Settle(p, NotFound(r))
  /\ UNCHANGED <<issues, comments, nextId, nextCommentId, events>>

FindAllComments(p) ==
  /\ Accept(p)
  /\ Settle(p, Ok([NoResult EXCEPT !.op = "findAllComments", 
                                   !.list = comments]))
  /\ UNCHANGED <<issues, comments, nextId, nextCommentId, events>>
\* ------------------------------------------------------------------ update
\* the tags for the keys whose value is truthy (if (dto.title) ...)
UpdateScopesTruthy(dto) ==
  (IF "title" \in DOMAIN dto /\ dto["title"] # "" THEN <<"TITLE">> ELSE <<>>)
    \o (IF "description" \in DOMAIN dto /\ dto["description"] # ""
          THEN <<"DESCRIPTION">> ELSE <<>>)
    \o (IF "status" \in DOMAIN dto /\ dto["status"] # "" THEN <<"STATUS">> ELSE <<>>)

\* the tags pushed for the keys present in the dto, in the order of the ifs
UpdateScopes(dto) ==
  (IF "title" \in DOMAIN dto THEN <<"TITLE">> ELSE <<>>)
    \o (IF "description" \in DOMAIN dto THEN <<"DESCRIPTION">> ELSE <<>>)
    \o (IF "status" \in DOMAIN dto THEN <<"STATUS">> ELSE <<>>)

\* the message of 'news.issue.update' built by update
UpdatePayload(dto, updatedIssue) ==
  Spread(dto, [projectId |-> updatedIssue.projectId,
               issueId |-> updatedIssue.id,
               updateScopes |-> UpdateScopes(dto)])

UpdateResult(p) ==
  [NoResult EXCEPT !.op = "update", !.id = loc[p].id,
                   !.dto = loc[p].dto]

\* await issueRepository.update(issueId, updateIssueDto)
UpdateApply(p) ==
  /\ Accept(p)
  /\ \E id \in KnownIds, dto \in UpdateDtos :
       /\ issues' = RepoUpdate(id, dto)
       /\ Suspend(p, "update_reread",
                  [NoLoc EXCEPT !.id = id, !.dto = dto])
  /\ UNCHANGED <<comments, nextId, nextCommentId, events>>

\* await issueRepository.findOne(issueId), then the scopes and the message
UpdateReread(p) ==
  /\ pc[p] = "update_reread"
  /\ LET updatedIssue == RepoFindOne(loc[p].id)
     IN IF Truthy(updatedIssue)
          THEN Suspend(p, "update_publish",
                       [loc[p] EXCEPT !.issue = updatedIssue,
                                      !.payload = UpdatePayload(loc[p].dto, updatedIssue)])
          ELSE Settle(p, NotFound(UpdateResult(p)))
  /\ UNCHANGED <<issues, comments, nextId, nextCommentId, events, requests>>

\* publish 'news.issue.update', then return updatedIssue
UpdatePublish(p) ==
  /\ pc[p] = "update_publish"
  /\ \/ /\ Publish("news", "news.issue.update", loc[p].payload)
        /\ Settle(p, Ok([UpdateResult(p) EXCEPT !.issue = loc[p].issue]))
     \/ /\ Settle(p, PublishError(UpdateResult(p)))
        /\ UNCHANGED events
  /\ UNCHANGED <<issues, comments, nextId, nextCommentId, requests>>

\* ------------------------------------------------------------------ remove
RemoveResult(p) ==
  [NoResult EXCEPT !.op = "remove", !.id = loc[p].id,
                   !.issue = loc[p].issue]

\* the message of 'news.issue.delete': the fields of the fetched issue
DeletePayload(issue) ==
  [title |-> issue.title, description |-> issue.description,
   projectId |-> issue.projectId, issueId |-> issue.id]

\* const issue = await this.findOne(issueId)
RemoveFetch(p) ==
  /\ Accept(p)
  /\ \E id \in KnownIds :
       LET r == FindOneOutcome([NoResult EXCEPT !.op = "remove",
                                   !.id = id],
                               RepoFindOne(id))
       IN IF r.kind = "ok"
            THEN Suspend(p, "remove_delete",
                         [NoLoc EXCEPT !.id = id,
                                       !.issue = r.issue])
            ELSE Settle(p, r)
  /\ UNCHANGED <<issues, comments, nextId, nextCommentId, events>>

\* the delete without the check of deleted.affected
RemoveAffectedUnchecked(p, affected) == Suspend(p, "remove_deleted", loc[p])

\* what follows the delete: the throw when nothing was affected
RemoveAffectedCheck(p, affected) ==
  IF affected = 0
    THEN Settle(p, NotFound(RemoveResult(p)))
    ELSE Suspend(p, "remove_deleted", loc[p])

\* await issueRepository.delete(issueId) and the check of deleted.affected
RemoveDelete(p) ==
  /\ pc[p] = "remove_delete"
  /\ issues' = RepoDelete(loc[p].id)
  /\ RemoveAffectedCheck(p, RepoAffected(loc[p].id))
  /\ UNCHANGED <<comments, nextId, nextCommentId, events, requests>>

\* publish 'project.issue.deleted'
RemovePublishDeleted(p) ==
  /\ pc[p] = "remove_deleted"
  /\ \/ /\ Publish("direct-exchange", "project.issue.deleted",
                   [uuid |-> loc[p].id])
        /\ Suspend(p, "remove_news", loc[p])
     \/ /\ Settle(p, PublishError(RemoveResult(p)))
        /\ UNCHANGED events
  /\ UNCHANGED <<issues, comments, nextId, nextCommentId, requests>>

\* publish 'news.issue.delete', then return
RemovePublishNews(p) ==
  /\ pc[p] = "remove_news"
  /\ \/ /\ Publish("news", "news.issue.delete", DeletePayload(loc[p].issue))
        /\ Settle(p, Ok(RemoveResult(p)))
     \/ /\ Settle(p, PublishError(RemoveResult(p)))
        /\ UNCHANGED events
  /\ UNCHANGED <<issues, comments, nextId, nextCommentId, requests>>

\* -------------------------------------------------------------- addComment
AddCommentResult(p) ==
  [NoResult EXCEPT !.op = "addComment", !.id = loc[p].id,
                   !.dto = loc[p].dto, !.comment = loc[p].comment]

\* Repository<Comment>.save(newComment): the row is inserted as given
CommentSave(c) == comments \cup {c}

\* the message of 'news.issue.update' built by addComment
CommentPayload(issue, dto) ==
  Spread([issueId |-> issue.id, projectId |-> issue.projectId,
          updateScopes |-> <<"COMMENT">>], dto)

\* const issue = await this.findOne(issueId)
AddCommentFetch(p) ==
  /\ Accept(p)
  /\ \E id \in KnownIds, dto \in CommentDtos :
       LET r == FindOneOutcome([NoResult EXCEPT !.op = "addComment",
                                   !.id = id, !.dto = dto],
                               RepoFindOne(id))
       IN IF r.kind = "ok"
            THEN Suspend(p, "comment_save",
                         [NoLoc EXCEPT !.id = id,
                                       !.dto = dto, !.issue = r.issue])
            ELSE Settle(p, r)
  /\ UNCHANGED <<issues, comments, nextId, nextCommentId, events>>

\* commentRepository.create({...dto, issue}) and the awaited save(newComment)
AddCommentSave(p) ==
  /\ pc[p] = "comment_save"
  /\ LET newComment == [id |-> nextCommentId, body |-> loc[p].dto.body,
                        issueId |-> loc[p].issue.id]
     IN /\ comments' = CommentSave(newComment)
        /\ Suspend(p, "comment_publish", [loc[p] EXCEPT !.comment = newComment])
  /\ nextCommentId' = nextCommentId + 1
  /\ UNCHANGED <<issues, nextId, events, requests>>

\* publish 'news.issue.update' with scope COMMENT, then return newComment
AddCommentPublish(p) ==
  /\ pc[p] = "comment_publish"
  /\ \/ /\ Publish("news", "news.issue.update",
                   CommentPayload(loc[p].issue, loc[p].dto))
        /\ Settle(p, Ok(AddCommentResult(p)))
     \/ /\ Settle(p, PublishError(AddCommentResult(p)))
        /\ UNCHANGED events
  /\ UNCHANGED <<issues, comments, nextId, nextCommentId, requests>>

\* ------------------------------------------------------------ specification
Next ==
  \E p \in Procs :
    \/ CreateSave(p)
    \/ CreatePublishCreated(p)
    \/ CreatePublishNews(p)
    \/ FindAll(p)
    \/ FindAllForProject(p)
    \/ FindOne(p)
    \/ UpdateApply(p)
    \/ UpdateReread(p)
    \/ UpdatePublish(p)
    \/ RemoveFetch(p)
    \/ RemoveDelete(p)
    \/ RemovePublishDeleted(p)
    \/ RemovePublishNews(p)
    \/ AddCommentFetch(p)
    \/ AddCommentSave(p)
    \/ AddCommentPublish(p)
    \/ FindAllCommentsForIssue(p)
    \/ FindAllComments(p)

Spec == Init /\ [][Next]_vars

TypeOK ==
  /\ DOMAIN issues \subseteq IssueIds
  /\ nextId \in 1..(MaxIssues + 1)
  /\ requests \in 0..MaxRequests
\* ------------------------------------------------------------------ claims
\* helpers of the properties
Last(seq) == seq[Len(seq)]
Appended == Len(events') = Len(events) + 1 /\ SubSeq(events', 1, Len(events)) = events
EventsOf(key, field, i) ==
  {k \in 1..Len(events) : /\ events[k].key = key
                           /\ field \in DOMAIN events[k].payload
                           /\ events[k].payload[field] = i}
StoreUnchanged == issues' = issues /\ comments' = comments
\* slot p took the step
Moved(p) == pc'[p] # pc[p]
\* a request was accepted and settled in the same step
AnsweredAtOnce(op) == requests' = requests + 1 /\ pc' = pc /\ last'.op = op
PublishPcs == {"create_created", "create_news", "update_publish",
               "remove_deleted", "remove_news", "comment_publish"}

\* C1: when create's save succeeded and a publish failed, the caller gets the
\* publish error, not the Internal-Error 'Could not save issue'.
C1_PublishErrorPropagates ==
  (last.op = "create" /\ last.kind # "ok" /\ last.id # NoId)
    => last.kind = "PublishError"

\* C2: findAllCommentsForIssue fails with Not-Found when no issue with the
\* id is in the store, and returns an issue only when that issue exists.
C2_NotFoundWhenAbsent ==
  last.op = "findAllCommentsForIssue"
    => IF last.kind = "ok" THEN last.issue.id = last.id
                           ELSE last.kind = "NotFound"

\* C3: addComment for an id without an issue fails with Not-Found and
\* changes neither the comments nor the issues nor the published events;
\* it goes on to save a comment only when the issue was found.
C3_AddCommentMissingIssue ==
  [][ /\ \A p \in Procs :
           (pc[p] = "idle" /\ pc'[p] = "comment_save")
             => loc'[p].id \in DOMAIN issues
      /\ (AnsweredAtOnce("addComment") /\ last'.id \notin DOMAIN issues)
           => /\ last'.kind = "NotFound"
              /\ StoreUnchanged
              /\ events' = events
              /\ nextCommentId' = nextCommentId ]_vars

C3_Witness ==
  /\ last.op = "addComment"
  /\ last.kind = "NotFound"
  /\ last.id \notin DOMAIN issues
  /\ DOMAIN issues # {}

\* C4: the updateScopes of the event update publishes is the list of the tags
\* TITLE, DESCRIPTION, STATUS, in that order, whose keys are present in the
\* input, whatever the values are and whatever is stored; never COMMENT.
ScopeKey(tag) ==
  IF tag = "TITLE" THEN "title" ELSE IF tag = "DESCRIPTION" THEN "description" ELSE "status"

ExpectedScopes(dto) ==
  LET Present(tag) == ScopeKey(tag) \in DOMAIN dto
  IN SelectSeq(<<"TITLE", "DESCRIPTION", "STATUS">>, Present)

C4_ScopesByPresence ==
  [][ \A p \in Procs :
        (pc[p] = "update_publish" /\ Moved(p) /\ events' # events)
          => /\ Appended
             /\ Last(events').exchange = "news"
             /\ Last(events').key = "news.issue.update"
             /\ Last(events').payload.updateScopes = ExpectedScopes(loc[p].dto)
             /\ \A k \in DOMAIN loc[p].dto :
                  Last(events').payload[k] = loc[p].dto[k] ]_vars

\* two updates of one issue with only {status: "closed"}: the second supplies
\* the stored status, and both events carry [STATUS]
C4_Witness ==
  \E j, k \in 1..Len(events) :
    /\ j < k
    /\ \A n \in {j, k} :
         /\ events[n].key = "news.issue.update"
         /\ events[n].payload.updateScopes = <<"STATUS">>
         /\ events[n].payload.issueId = events[j].payload.issueId
    /\ \A n \in j..k :
         events[n].key = "news.issue.update" /\ events[n].payload.issueId = events[j].payload.issueId
    /\ events[j].payload.issueId \in DOMAIN issues
    /\ issues[events[j].payload.issueId].status = "closed"

\* C5: once a remove of an issue has completed, no read returns the issue:
\* findOne fails with Not-Found, findAll and findAllForProject do not contain
\* it; and findOne of an id never created fails with Not-Found.
Removed(i) == EventsOf("news.issue.delete", "issueId", i) # {}

C5_RemovedIsGone ==
  /\ \A i \in IssueIds :
       Removed(i) =>
         /\ i \notin DOMAIN issues
         /\ (last.op = "findOne" /\ last.id = i) => last.kind = "NotFound"
         /\ (last.op \in {"findAll", "findAllForProject"})
              => \A r \in last.list : r.id # i
  /\ (last.op = "findOne" /\ last.id >= nextId) => last.kind = "NotFound"

C5_Witness ==
  /\ last.op = "findOne"
  /\ last.kind = "NotFound"
  /\ Removed(last.id)

\* the events about the creation of issue i, in the order of publication
CreateKeys == {"project.issue.created", "news.issue.create"}
IdIn(e) ==
  IF "uuid" \in DOMAIN e.payload THEN e.payload.uuid
  ELSE IF "issueId" \in DOMAIN e.payload THEN e.payload.issueId ELSE NoId
CreateEventsOf(i) ==
  LET About(e) == e.key \in CreateKeys /\ IdIn(e) = i
  IN SelectSeq(events, About)

\* what a successful create returned and published
C6_Returned ==
  (last.op = "create" /\ last.kind = "ok") =>
    /\ last.issue.id # NoId
    /\ last.issue.id = last.id
    /\ last.issue.title = last.dto.title
    /\ last.issue.description = last.dto.description
    /\ last.issue.projectId = last.dto.projectId
    /\ CreateEventsOf(last.id) =
         << [exchange |-> "direct-exchange", key |-> "project.issue.created",
             payload |-> [uuid |-> last.id]],
            [exchange |-> "news", key |-> "news.issue.create",
             payload |-> [title |-> last.dto.title,
                          description |-> last.dto.description,
                          projectId |-> last.dto.projectId,
                          issueId |-> last.id]] >>

\* the save inserts a row under a new id; creation events follow the save
C6_Saved ==
  /\ \A p \in Procs :
       (pc[p] = "idle" /\ pc'[p] = "create_created") =>
         /\ loc'[p].id # NoId
         /\ loc'[p].id \notin DOMAIN issues
         /\ DOMAIN issues' = DOMAIN issues \cup {loc'[p].id}
         /\ \A i \in DOMAIN issues : issues'[i] = issues[i]
  /\ (events' # events /\ Last(events').key \in CreateKeys)
       => IdIn(Last(events')) \in 1..(nextId - 1)

\* C6: a successful create returns an issue with a fresh, non-empty id and
\* the fields of the input; it publishes 'project.issue.created' with that id
\* on 'direct-exchange' and then 'news.issue.create' with the input and the
\* id on 'news', exactly these two, and neither before the issue was saved.
C6_CreateContract == []C6_Returned /\ [][C6_Saved]_vars

\* the second create of a run succeeded while the first issue is stored
C6_Witness ==
  /\ last.op = "create"
  /\ last.kind = "ok"
  /\ last.id = 2
  /\ 1 \in DOMAIN issues

\* C7: no comment is saved while its issue is absent from the store.
C7_CommentIssueExists ==
  [][ \A c \in comments' \ comments : c.issueId \in DOMAIN issues ]_vars

\* C8: update for an id without a stored issue fails with Not-Found,
\* publishes nothing and changes no stored issue or comment; update publishes
\* its event only after it applied the fields and re-read the issue, with
\* the id and the projectId of the re-read issue.
C8_UpdateMissingIssue ==
  [][ /\ \A p \in Procs :
           /\ (pc[p] = "idle" /\ pc'[p] = "update_reread")
                => /\ comments' = comments /\ events' = events
                   /\ DOMAIN issues' = DOMAIN issues
                   /\ loc'[p].id \notin DOMAIN issues => issues' = issues
                   /\ loc'[p].id \in DOMAIN issues =>
                        \A k \in DOMAIN loc'[p].dto :
                          issues'[loc'[p].id][k] = loc'[p].dto[k]
           /\ (pc[p] = "update_reread" /\ Moved(p))
                => /\ StoreUnchanged /\ events' = events
                   /\ IF loc[p].id \in DOMAIN issues
                        THEN /\ pc'[p] = "update_publish"
                             /\ loc'[p].issue = issues[loc[p].id]
                        ELSE /\ pc'[p] = "idle"
                             /\ last'.op = "update"
                             /\ last'.kind = "NotFound"
           /\ (pc[p] = "update_publish" /\ Moved(p) /\ events' # events)
                => /\ Last(events').payload.issueId = loc[p].id
                   /\ Last(events').payload.issueId = loc[p].issue.id
                   /\ Last(events').payload.projectId = loc[p].issue.projectId
      /\ (events' # events /\ Last(events').key = "news.issue.update"
            /\ "body" \notin DOMAIN Last(events').payload)
           => \E p \in Procs : pc[p] = "update_publish" /\ Moved(p) ]_vars

C8_Witness ==
  /\ last.op = "update"
  /\ last.kind = "NotFound"
  /\ last.id \notin DOMAIN issues
  /\ DOMAIN issues # {}

\* C9: a publish that fails ends its operation with an error and undoes
\* nothing: the stored issues, the stored comments and the events published
\* so far stay as they are, and the step is not tried again; findOne returns
\* whatever row is stored, also the row of a create whose publish failed.
C9_NoCompensation ==
  [][ /\ \A p \in Procs :
           (pc[p] \in PublishPcs /\ Moved(p) /\ events' = events)
             => /\ pc'[p] = "idle"
                /\ last'.kind \notin {"ok", "none"}
                /\ StoreUnchanged
                /\ pc[p] = "comment_publish" => loc[p].comment \in comments'
                /\ pc[p] = "remove_news" =>
                     /\ loc[p].id \notin DOMAIN issues'
                     /\ EventsOf("project.issue.deleted", "uuid", loc[p].id) # {}
      /\ (AnsweredAtOnce("findOne") /\ last'.id \in DOMAIN issues)
           => last'.kind = "ok" /\ last'.issue = issues[last'.id] ]_vars

\* a create failed at a publish and its issue is still stored
C9_Witness ==
  /\ last.op = "create"
  /\ last.kind # "ok"
  /\ last.id # NoId
  /\ last.id \in DOMAIN issues
  /\ \A p \in Procs : pc[p] = "idle"

\* the removes of issue i that deleted the row and have not published yet
Deleting(i) == {p \in Procs : pc[p] = "remove_deleted" /\ loc[p].id = i}

\* at most one remove of an issue gets past the delete
C10_State ==
  \A i \in IssueIds :
    /\ Cardinality(Deleting(i))
         + Cardinality(EventsOf("project.issue.deleted", "uuid", i)) <= 1
    /\ Cardinality(EventsOf("news.issue.delete", "issueId", i)) <= 1
    /\ \A k \in EventsOf("news.issue.delete", "issueId", i) :
         \E j \in EventsOf("project.issue.deleted", "uuid", i) : j < k

\* the steps of remove, and no step brings a deleted row back
C10_Step ==
  /\ \A p \in Procs :
       /\ (pc[p] = "idle" /\ pc'[p] = "remove_delete")
            => /\ loc'[p].id \in DOMAIN issues
               /\ loc'[p].issue = issues[loc'[p].id]
       /\ (pc[p] = "remove_delete" /\ Moved(p))
            => /\ events' = events
               /\ loc[p].id \notin DOMAIN issues'
               /\ IF loc[p].id \in DOMAIN issues
                    THEN pc'[p] = "remove_deleted"
                    ELSE pc'[p] = "idle" /\ last'.op = "remove"
                         /\ last'.kind = "NotFound"
       /\ (pc[p] = "remove_news" /\ Moved(p) /\ events' # events)
            => Last(events').payload =
                 [title |-> loc[p].issue.title,
                  description |-> loc[p].issue.description,
                  projectId |-> loc[p].issue.projectId, issueId |-> loc[p].id]
  /\ AnsweredAtOnce("remove")
       => /\ last'.kind = "NotFound" /\ last'.id \notin DOMAIN issues
          /\ events' = events /\ StoreUnchanged
  /\ \A i \in (DOMAIN issues') \ (DOMAIN issues) : i = nextId /\ nextId' = nextId + 1

\* C10: of the removes of one issue, one deletes the row and goes on to
\* publish; every other fails with Not-Found and publishes nothing; an issue
\* has at most one 'project.issue.deleted' and one 'news.issue.delete' event,
\* and the latter carries the fields read before the deletion.
C10_OneRemoveWins == []C10_State /\ [][C10_Step]_vars

\* a remove that fetched the issue found it deleted by another remove
C10_Witness ==
  /\ last.op = "remove"
  /\ last.kind = "NotFound"
  /\ last.issue # NoIssue
  /\ \/ Deleting(last.id) # {}
     \/ EventsOf("project.issue.deleted", "uuid", last.id) # {}
====
